---- MODULE Spec2Model ----
(***************************************************************************)
(* Model of custom_components/mypyllant/fan.py: the VentilationFan entity  *)
(* that mirrors the ventilation units of the polled systems onto the fan   *)
(* entity contract, and async_setup_entry that creates the entities.       *)
(*                                                                         *)
(* Python values are modelled as records [type, s, i] so that a string, an *)
(* enum member and None are different values and str() / Enum(value) are   *)
(* real conversions.  The result of evaluating an expression that may      *)
(* raise is a record [raised, value]: raised = "" means it returned.       *)
(***************************************************************************)
EXTENDS Integers, Sequences, FiniteSets, TLC

VARIABLES data, setup, entities, states, fan, refreshPending

vars == <<data, setup, entities, states, fan, refreshPending>>

\* Bounds of the model: number of systems in a snapshot, number of
\* ventilation units per system, number of commands that overlap.
MaxSystems == 2
MaxVents == 2
MaxInFlight == 2

-----------------------------------------------------------------------------
\* Python values

PyNone == [type |-> "NoneType", s |-> "", i |-> 0]
PyStr(x) == [type |-> "str", s |-> x, i |-> 0]
PyInt(n) == [type |-> "int", s |-> "", i |-> n]
PyBool(b) == [type |-> "bool", s |-> "", i |-> IF b THEN 1 ELSE 0]

\* bool(x) for the values that occur: None, "" and 0 are falsy.
Truthy(x) ==
    CASE x.type = "NoneType" -> FALSE
      [] x.type = "str" -> x.s # ""
      [] x.type \in {"int", "bool"} -> x.i # 0
      [] OTHER -> TRUE

Return(v) == [raised |-> "", value |-> v]
Raise(e) == [raised |-> e, value |-> PyNone]

DOMAIN_NAME == "mypyllant"

\* myPyllant.models.VentilationOperationMode: the member named n, whose
\* value is the string n.
Member(n) == [type |-> "VentilationOperationMode", s |-> n, i |-> 0]
ModeNames == {"NORMAL", "REDUCED", "TIME_CONTROLLED", "OFF"}
VentilationOperationMode == {Member(n) : n \in ModeNames}
NORMAL == Member("NORMAL")
REDUCED == Member("REDUCED")
TIME_CONTROLLED == Member("TIME_CONTROLLED")
OFF == Member("OFF")

\* str(member): MyPyllantEnum.__str__ returns the member's value.
Str(m) == PyStr(m.s)

\* VentilationOperationMode(value): the member with that value (a member is
\* mapped to itself), ValueError when there is none.
ToMode(x) ==
    IF x \in VentilationOperationMode THEN Return(x)
    ELSE IF x.type = "str" /\ x.s \in ModeNames THEN Return(Member(x.s))
    ELSE Raise("ValueError")

FAN_SPEED_OPTIONS == <<REDUCED, NORMAL>>

Range(f) == {f[k] : k \in DOMAIN f}
Min(S) == CHOOSE x \in S : \A y \in S : x <= y

\* homeassistant.util.percentage.ordered_list_item_to_percentage
ordered_list_item_to_percentage(list, item) ==
    IF item \notin Range(list) THEN Raise("ValueError")
    ELSE LET list_position == Min({k \in DOMAIN list : list[k] = item})
         IN  Return(PyInt((list_position * 100) \div Len(list)))

\* homeassistant.util.percentage.percentage_to_ordered_list_item: the first
\* item whose upper bound (position * 100) // len is >= percentage, the last
\* item when there is none.
percentage_to_ordered_list_item(list, percentage) ==
    IF Len(list) = 0 THEN Raise("ValueError")
    ELSE LET hits == {k \in DOMAIN list : percentage <= (k * 100) \div Len(list)}
         IN  IF hits # {} THEN Return(list[Min(hits)])
             ELSE Return(list[Len(list)])

-----------------------------------------------------------------------------
\* Snapshots held by the coordinator: a sequence of systems, each with a
\* sequence of ventilation units.

Unit(s, v, m) == [system |-> s, index |-> v, operation_mode_ventilation |-> m]
System(s, modes) ==
    [ventilation |-> [j \in 1..Len(modes) |-> Unit(s - 1, j - 1, modes[j])]]
Snapshot(rows) == [k \in 1..Len(rows) |-> System(k, rows[k])]

Rows(modes) == UNION {[1..k -> modes] : k \in 0..MaxVents}
Snapshots(modes) ==
    {Snapshot(rows) : rows \in UNION {[1..n -> Rows(modes)] : n \in 0..MaxSystems}}

UnitModes == VentilationOperationMode \cup {PyNone}

-----------------------------------------------------------------------------
\* VentilationFan

\* VentilationFan.__init__: the two indices and the entity id derived from
\* the ventilation index.
VentilationFan(system_index, ventilation_index) ==
    [system_index |-> system_index,
     ventilation_index |-> ventilation_index,
     entity_id |-> DOMAIN_NAME \o ".ventilation_" \o ToString(ventilation_index)]

\* Mutant: a unique id that also names the system.
unique_id_per_system(self) ==
    DOMAIN_NAME \o "_climate_ventilation_" \o ToString(self.system_index)
        \o "_" \o ToString(self.ventilation_index)

unique_id(self) ==
    DOMAIN_NAME \o "_climate_ventilation_" \o ToString(self.ventilation_index)

\* self.coordinator.data[self.system_index], read from snapshot d.
system(self, d) ==
    IF self.system_index < Len(d) THEN Return(d[self.system_index + 1])
    ELSE Raise("IndexError")

\* Mutant: the first unit of the system, whatever the ventilation index.
ventilation_first(self, d) ==
    LET sys == system(self, d)
    IN  IF sys.raised # "" THEN Raise(sys.raised)
        ELSE IF 0 < Len(sys.value.ventilation)
             THEN Return(sys.value.ventilation[1])
             ELSE Raise("IndexError")

\* self.system.ventilation[self.ventilation_index], read from snapshot d.
ventilation(self, d) ==
    LET sys == system(self, d)
    IN  IF sys.raised # "" THEN Raise(sys.raised)
        ELSE IF self.ventilation_index < Len(sys.value.ventilation)
             THEN Return(sys.value.ventilation[self.ventilation_index + 1])
             ELSE Raise("IndexError")

\* Mutant: on only for the modes of the speed scale.
is_on_speed_only(self, d) ==
    LET unit == ventilation(self, d)
    IN  IF unit.raised # "" THEN Raise(unit.raised)
        ELSE Return(PyBool(unit.value.operation_mode_ventilation
                               \in Range(FAN_SPEED_OPTIONS)))

is_on(self, d) ==
    LET unit == ventilation(self, d)
    IN  IF unit.raised # "" THEN Raise(unit.raised)
        ELSE Return(PyBool(unit.value.operation_mode_ventilation # OFF))

preset_mode(self, d) ==
    LET unit == ventilation(self, d)
    IN  IF unit.raised # "" THEN Raise(unit.raised)
        ELSE IF Truthy(unit.value.operation_mode_ventilation)
             THEN Return(Str(unit.value.operation_mode_ventilation))
             ELSE Return(PyNone)

\* Mutant: None instead of an error for a mode outside the speed scale.
percentage_or_none(self, d) ==
    LET unit == ventilation(self, d)
    IN  IF unit.raised # "" THEN Raise(unit.raised)
        ELSE IF unit.value.operation_mode_ventilation = TIME_CONTROLLED
             THEN Return(PyInt(100))
        ELSE IF unit.value.operation_mode_ventilation = OFF
             THEN Return(PyInt(0))
        ELSE IF unit.value.operation_mode_ventilation \notin Range(FAN_SPEED_OPTIONS)
             THEN Return(PyNone)
        ELSE ordered_list_item_to_percentage(
                 FAN_SPEED_OPTIONS, unit.value.operation_mode_ventilation)

\* Mutant: the position in the speed scale counted from 0.
percentage_zero_based(self, d) ==
    LET unit == ventilation(self, d)
        mode == unit.value.operation_mode_ventilation
    IN  IF unit.raised # "" THEN Raise(unit.raised)
        ELSE IF mode = TIME_CONTROLLED THEN Return(PyInt(100))
        ELSE IF mode = OFF THEN Return(PyInt(0))
        ELSE IF mode \notin Range(FAN_SPEED_OPTIONS) THEN Raise("ValueError")
        ELSE Return(PyInt(
                 ((Min({k \in DOMAIN FAN_SPEED_OPTIONS : FAN_SPEED_OPTIONS[k] = mode}) - 1)
                     * 100) \div Len(FAN_SPEED_OPTIONS)))

percentage(self, d) ==
    LET unit == ventilation(self, d)
    IN  IF unit.raised # "" THEN Raise(unit.raised)
        ELSE IF unit.value.operation_mode_ventilation = TIME_CONTROLLED
             THEN Return(PyInt(100))
        ELSE IF unit.value.operation_mode_ventilation = OFF
             THEN Return(PyInt(0))
        ELSE ordered_list_item_to_percentage(
                 FAN_SPEED_OPTIONS, unit.value.operation_mode_ventilation)

\* The state the host platform writes for an entity: the read properties
\* evaluated on snapshot d.
State(self, d) ==
    [is_on |-> is_on(self, d),
     preset_mode |-> preset_mode(self, d),
     percentage |-> percentage(self, d)]

WriteStates(es, d) == [k \in DOMAIN es |-> State(es[k], d)]

-----------------------------------------------------------------------------
\* async_setup_entry

RECURSIVE Flatten(_)
Flatten(ss) == IF ss = <<>> THEN <<>> ELSE Head(ss) \o Flatten(Tail(ss))

\* Mutant: one entity per system, for its first unit.
ventilation_entities_first_only(d) ==
    Flatten([k \in 1..Len(d) |->
               IF Len(d[k].ventilation) = 0 THEN <<>>
               ELSE <<VentilationFan(k - 1, 0)>>])

\* The list built by the two nested enumerate() loops.
ventilation_entities(d) ==
    Flatten([k \in 1..Len(d) |->
               [j \in 1..Len(d[k].ventilation) |-> VentilationFan(k - 1, j - 1)]])

NoUnit == Unit(0 - 1, 0 - 1, PyNone)

\* An entity on which no command runs.
IdleFan ==
    [pc |-> "idle", cmd |-> "", arg |-> PyNone, target |-> NoUnit,
     mode |-> PyNone, calls |-> 0, refreshes |-> 0, raised |-> ""]

async_setup_entry ==
    /\ setup = "pending"
    /\ IF Len(data) = 0
       THEN /\ setup' = "skipped"
            /\ UNCHANGED <<entities, states, fan>>
       ELSE /\ setup' = "done"
            /\ entities' = ventilation_entities(data)
            /\ states' = WriteStates(entities', data)
            /\ fan' = [k \in DOMAIN entities' |-> IdleFan]
    /\ UNCHANGED <<data, refreshPending>>

-----------------------------------------------------------------------------
\* Commands.  fan[k] follows the coroutine of the command running on
\* entities[k]: "api" while it awaits set_ventilation_operation_mode, "refresh"
\* while it awaits async_request_refresh_delayed, "returned" / "raised" once
\* it has handed its result or its exception to the host platform.  cmd,
\* arg, target and mode are the command and the call it issues; they are
\* kept while the call is in flight (or the command failed before it), the
\* four commands being the same from there on.
\* An entity runs one command at a time, and at most MaxInFlight entities
\* have a command that has not yet been taken by the host platform.

Busy == {k \in DOMAIN fan : fan[k].pc # "idle"}

CanStart(k) ==
    /\ k \in DOMAIN fan
    /\ fan[k].pc = "idle"
    /\ Cardinality(Busy) < MaxInFlight

FirstError(r1, r2) == IF r1.raised # "" THEN r1.raised ELSE r2.raised

\* The call expression set_ventilation_operation_mode(unit, mode): when
\* evaluating an argument raised (err), the exception leaves the command and
\* nothing is called.
Call(cmd, arg, err, unit, mode) ==
    IF err # ""
    THEN [IdleFan EXCEPT !.pc = "raised", !.cmd = cmd, !.arg = arg, !.raised = err]
    ELSE [IdleFan EXCEPT !.pc = "api", !.cmd = cmd, !.arg = arg,
                         !.target = unit.value, !.mode = mode.value, !.calls = 1]

\* The mode async_turn_on resolves from its preset_mode argument.
turn_on_mode(preset_mode_arg) ==
    ToMode(IF ~Truthy(preset_mode_arg) THEN Str(TIME_CONTROLLED) ELSE preset_mode_arg)

async_turn_on(k, speed, percentage_arg, preset_mode_arg) ==
    /\ CanStart(k)
    /\ LET unit == ventilation(entities[k], data)
           mode == turn_on_mode(preset_mode_arg)
       IN  fan' = [fan EXCEPT ![k] =
                     Call("turn_on", preset_mode_arg, FirstError(unit, mode), unit, mode)]
    /\ UNCHANGED <<data, setup, entities, states, refreshPending>>

async_turn_off(k) ==
    /\ CanStart(k)
    /\ LET unit == ventilation(entities[k], data)
       IN  fan' = [fan EXCEPT ![k] =
                     Call("turn_off", PyNone, unit.raised, unit, Return(OFF))]
    /\ UNCHANGED <<data, setup, entities, states, refreshPending>>

\* Mutant: an unknown preset falls back to TIME_CONTROLLED.
set_preset_mode_mode_lenient(preset_mode_arg) ==
    IF ToMode(preset_mode_arg).raised # "" THEN Return(TIME_CONTROLLED)
    ELSE ToMode(preset_mode_arg)

\* The mode async_set_preset_mode resolves from its argument.
set_preset_mode_mode(preset_mode_arg) == ToMode(preset_mode_arg)

async_set_preset_mode(k, preset_mode_arg) ==
    /\ CanStart(k)
    /\ LET unit == ventilation(entities[k], data)
           mode == set_preset_mode_mode(preset_mode_arg)
       IN  fan' = [fan EXCEPT ![k] =
                     Call("set_preset_mode", preset_mode_arg,
                          FirstError(unit, mode), unit, mode)]
    /\ UNCHANGED <<data, setup, entities, states, refreshPending>>

\* Mutant: no branch for percentage 0.
set_percentage_mode_no_zero(percentage_arg) ==
    percentage_to_ordered_list_item(FAN_SPEED_OPTIONS, percentage_arg)

\* The mode async_set_percentage resolves from its argument.
set_percentage_mode(percentage_arg) ==
    IF percentage_arg = 0 THEN Return(OFF)
    ELSE percentage_to_ordered_list_item(FAN_SPEED_OPTIONS, percentage_arg)

async_set_percentage(k, percentage_arg) ==
    /\ CanStart(k)
    /\ LET mode == set_percentage_mode(percentage_arg)
           unit == ventilation(entities[k], data)
       IN  fan' = [fan EXCEPT ![k] =
                     Call("set_percentage", PyInt(percentage_arg),
                          FirstError(mode, unit), unit, mode)]
    /\ UNCHANGED <<data, setup, entities, states, refreshPending>>

\* The awaited API call completes: the command goes on to its last statement
\* and requests the delayed refresh.
ApiReturn(k) ==
    /\ k \in DOMAIN fan
    /\ fan[k].pc = "api"
    /\ fan' = [fan EXCEPT ![k] =
                 [IdleFan EXCEPT !.pc = "refresh", !.calls = fan[k].calls,
                                 !.refreshes = fan[k].refreshes + 1]]
    /\ refreshPending' = TRUE
    /\ UNCHANGED <<data, setup, entities, states>>

\* Mutant: the refresh is requested on the way out of a failed call too.
ApiRaise_refreshes(k) ==
    /\ k \in DOMAIN fan
    /\ fan[k].pc = "api"
    /\ fan' = [fan EXCEPT ![k] =
                 [IdleFan EXCEPT !.pc = "raised", !.raised = "ApiError",
                                 !.calls = fan[k].calls,
                                 !.refreshes = fan[k].refreshes + 1]]
    /\ refreshPending' = TRUE
    /\ UNCHANGED <<data, setup, entities, states>>

\* The awaited API call raises: nothing catches it, the command ends there.
ApiRaise(k) ==
    /\ k \in DOMAIN fan
    /\ fan[k].pc = "api"
    /\ fan' = [fan EXCEPT ![k] =
                 [IdleFan EXCEPT !.pc = "raised", !.raised = "ApiError",
                                 !.calls = fan[k].calls,
                                 !.refreshes = fan[k].refreshes]]
    /\ UNCHANGED <<data, setup, entities, states, refreshPending>>

\* Mutant: the command returns only once the requested refresh has run.
RefreshReturn_after_refresh(k) ==
    /\ k \in DOMAIN fan
    /\ fan[k].pc = "refresh"
    /\ ~refreshPending
    /\ fan' = [fan EXCEPT ![k].pc = "returned"]
    /\ UNCHANGED <<data, setup, entities, states, refreshPending>>

\* The awaitable of async_request_refresh_delayed resolves and the command
\* returns; the refresh itself is the coordinator's.
RefreshReturn(k) ==
    /\ k \in DOMAIN fan
    /\ fan[k].pc = "refresh"
    /\ fan' = [fan EXCEPT ![k].pc = "returned"]
    /\ UNCHANGED <<data, setup, entities, states, refreshPending>>

\* The host platform has taken the command's result or exception.
Collect(k) ==
    /\ k \in DOMAIN fan
    /\ fan[k].pc \in {"returned", "raised"}
    /\ fan' = [fan EXCEPT ![k] = IdleFan]
    /\ UNCHANGED <<data, setup, entities, states, refreshPending>>

\* The coordinator finishes a poll: d replaces the snapshot and every entity
\* writes its state from it.
Poll(d) ==
    /\ data' = d
    /\ refreshPending' = FALSE
    /\ states' = WriteStates(entities, d)
    /\ UNCHANGED <<setup, entities, fan>>

-----------------------------------------------------------------------------
\* Specifications

InitWith(D) ==
    /\ data \in D
    /\ setup = "pending"
    /\ entities = <<>>
    /\ states = <<>>
    /\ fan = <<>>
    /\ refreshPending = FALSE

\* Inputs of the commands
Speeds == {PyNone, PyStr("high")}
PercentageArgs == {PyNone, PyInt(30)}
Presets ==
    {PyNone, PyStr("")} \cup {PyStr(n) : n \in ModeNames}
        \cup {PyStr("invalid_value"), PyStr("normal")}
Percentages == 0..100

\* Spec: several entities whose commands overlap.  Every system has the
\* same number of units, and the polls find the units as they were.
SteadyModes == {NORMAL}
TurnOnArgs == {<<PyNone, PyNone>>, <<PyStr("high"), PyInt(30)>>}
SteadySnapshots ==
    {Snapshot([k \in 1..n |-> [j \in 1..v |-> NORMAL]]) :
        n \in 0..MaxSystems, v \in 0..MaxVents}

Init == InitWith(SteadySnapshots)

Next ==
    \/ async_setup_entry
    \/ \E k \in DOMAIN fan, args \in TurnOnArgs :
         async_turn_on(k, args[1], args[2], PyNone)
    \/ \E k \in DOMAIN fan : async_turn_off(k)
    \/ \E k \in DOMAIN fan, preset_mode_arg \in {PyStr("NORMAL")} :
         async_set_preset_mode(k, preset_mode_arg)
    \/ \E k \in DOMAIN fan, percentage_arg \in {50} :
         async_set_percentage(k, percentage_arg)
    \/ \E k \in DOMAIN fan : ApiReturn(k)
    \/ \E k \in DOMAIN fan : ApiRaise(k)
    \/ \E k \in DOMAIN fan : RefreshReturn(k)
    \/ \E k \in DOMAIN fan : Collect(k)
    \/ Poll(data)

Spec == Init /\ [][Next]_vars

\* SpecSetup: setup on every snapshot within the bounds, and polls that
\* replace the snapshot by any other.
InitSetup == InitWith(Snapshots(SteadyModes))

NextSetup ==
    \/ async_setup_entry
    \/ \E d \in Snapshots(SteadyModes) : Poll(d)

SpecSetup == InitSetup /\ [][NextSetup]_vars

\* SpecUnit: one system with one ventilation unit, every mode the unit can
\* be in, every input of the commands; a poll may find the unit or the
\* system gone.
UnitSnapshots ==
    {Snapshot(<<<<m>>>>) : m \in UnitModes} \cup {Snapshot(<<>>), Snapshot(<<<<>>>>)}

InitUnit == InitWith({Snapshot(<<<<m>>>>) : m \in UnitModes})

NextUnit ==
    \/ async_setup_entry
    \/ \E k \in DOMAIN fan, speed \in Speeds, percentage_arg \in PercentageArgs,
          preset_mode_arg \in Presets :
         async_turn_on(k, speed, percentage_arg, preset_mode_arg)
    \/ \E k \in DOMAIN fan : async_turn_off(k)
    \/ \E k \in DOMAIN fan, preset_mode_arg \in Presets \ {PyNone} :
         async_set_preset_mode(k, preset_mode_arg)
    \/ \E k \in DOMAIN fan, percentage_arg \in Percentages :
         async_set_percentage(k, percentage_arg)
    \/ \E k \in DOMAIN fan : ApiReturn(k)
    \/ \E k \in DOMAIN fan : ApiRaise(k)
    \/ \E k \in DOMAIN fan : RefreshReturn(k)
    \/ \E k \in DOMAIN fan : Collect(k)
    \/ \E d \in UnitSnapshots : Poll(d)

SpecUnit == InitUnit /\ [][NextUnit]_vars

-----------------------------------------------------------------------------
\* Properties

Abs(x) == IF x < 0 THEN 0 - x ELSE x

\* The unit an entity's indices select in the current snapshot.
UnitOf(k) == ventilation(entities[k], data)

\* The percentage each step of the speed scale stands for.
StepPercentage(m) == IF m = REDUCED THEN 50 ELSE 100

\* The steps of the scale nearest to p.
NearestSteps(p) ==
    {m \in Range(FAN_SPEED_OPTIONS) :
        \A m2 \in Range(FAN_SPEED_OPTIONS) :
            Abs(StepPercentage(m) - p) <= Abs(StepPercentage(m2) - p)}

SetPercentageInFlight(k) ==
    /\ fan[k].pc = "api"
    /\ fan[k].cmd = "set_percentage"

\* C1 as stated: set_percentage(p) issues one mode, OFF for p = 0 and for no
\* other p, else the step of [REDUCED, NORMAL] whose percentage (50, 100) is
\* nearest to p; NORMAL for p = 100.
C1_NearestStep ==
    \A k \in DOMAIN fan :
        SetPercentageInFlight(k) =>
            /\ fan[k].calls = 1
            /\ (fan[k].arg.i = 0 => fan[k].mode = OFF)
            /\ (fan[k].arg.i # 0 => fan[k].mode \in NearestSteps(fan[k].arg.i))
            /\ (fan[k].arg.i = 100 => fan[k].mode = NORMAL)

\* C1 amended: set_percentage(p) issues one mode, OFF for p = 0 and for no
\* other p, else the lowest step of [REDUCED, NORMAL] whose percentage is at
\* least p: REDUCED for 1..50, NORMAL for 51..100.  The command fails
\* without a call only when the entity's indices select no unit.
C1_LowestStepAtLeast ==
    \A k \in DOMAIN fan :
        /\ SetPercentageInFlight(k) =>
              /\ fan[k].calls = 1
              /\ fan[k].mode =
                    (IF fan[k].arg.i = 0 THEN OFF
                     ELSE IF fan[k].arg.i <= 50 THEN REDUCED
                     ELSE NORMAL)
        /\ (fan[k].pc = "raised" /\ fan[k].cmd = "set_percentage") =>
              fan[k].raised = "IndexError"

C1_Witness ==
    \E k \in DOMAIN fan :
        /\ SetPercentageInFlight(k)
        /\ fan[k].arg.i = 60
        /\ fan[k].mode = NORMAL

\* C2: the percentage an entity reports depends on the unit's mode alone:
\* 0 for OFF, 100 for TIME_CONTROLLED, 50 for REDUCED, 100 for NORMAL, and a
\* raised error, never a value, for any other mode (an unset one included).
C2_Percentage ==
    \A k \in DOMAIN states :
        UnitOf(k).raised = "" =>
            LET m == UnitOf(k).value.operation_mode_ventilation
                r == states[k].percentage
            IN  /\ (m = OFF => r = Return(PyInt(0)))
                /\ (m = TIME_CONTROLLED => r = Return(PyInt(100)))
                /\ (m = REDUCED => r = Return(PyInt(50)))
                /\ (m = NORMAL => r = Return(PyInt(100)))
                /\ (m \notin VentilationOperationMode => r.raised = "ValueError")

C2_Witness ==
    \E k \in DOMAIN states :
        /\ UnitOf(k).raised = ""
        /\ UnitOf(k).value.operation_mode_ventilation = PyNone
        /\ states[k].percentage.raised = "ValueError"

\* The percentage an entity reports for a unit in mode m.
ReportedPercentage(m) == percentage(VentilationFan(0, 0), Snapshot(<<<<m>>>>))

\* C3: the percentages reported for REDUCED and NORMAL increase strictly
\* with the position in [REDUCED, NORMAL], and set_percentage of the
\* percentage reported for such a mode issues that mode.
C3_RoundTrip ==
    /\ \A k1, k2 \in DOMAIN FAN_SPEED_OPTIONS :
          k1 < k2 =>
              /\ ReportedPercentage(FAN_SPEED_OPTIONS[k1]).raised = ""
              /\ ReportedPercentage(FAN_SPEED_OPTIONS[k2]).raised = ""
              /\ ReportedPercentage(FAN_SPEED_OPTIONS[k1]).value.i
                    < ReportedPercentage(FAN_SPEED_OPTIONS[k2]).value.i
    /\ \A k \in DOMAIN fan : \A m \in Range(FAN_SPEED_OPTIONS) :
          (SetPercentageInFlight(k) /\ ReportedPercentage(m) = Return(fan[k].arg)) =>
              /\ fan[k].calls = 1
              /\ fan[k].mode = m

C3_Witness ==
    \E k \in DOMAIN fan :
        /\ UnitOf(k).raised = ""
        /\ UnitOf(k).value.operation_mode_ventilation = REDUCED
        /\ states[k].percentage = Return(fan[k].arg)
        /\ SetPercentageInFlight(k)
        /\ fan[k].mode = REDUCED

\* A string that is the value of no member of VentilationOperationMode.
NoMemberString(x) == x.type = "str" /\ x.s \notin ModeNames

PresetCommand(r) ==
    /\ r.pc # "idle"
    /\ r.cmd \in {"turn_on", "set_preset_mode"}

\* C4 as stated: a preset-mode string matching no member, given to
\* set_preset_mode or to turn_on, makes the command fail with the
\* invalid-value error, with no API call and no refresh request.
C4_InvalidPresetFails ==
    \A k \in DOMAIN fan :
        (PresetCommand(fan[k]) /\ NoMemberString(fan[k].arg)) =>
            /\ fan[k].pc = "raised"
            /\ fan[k].raised = "ValueError"
            /\ fan[k].calls = 0
            /\ fan[k].refreshes = 0

\* C4 amended: a preset-mode string matching no member makes the command
\* fail with no API call and no refresh request, the empty string given to
\* turn_on excepted, which counts as no preset and issues TIME_CONTROLLED;
\* the error is the invalid-value error when the entity's indices select a
\* unit of the snapshot, the index error otherwise.
C4_NonEmptyInvalidPresetFails ==
    /\ [](\A k \in DOMAIN fan :
            (PresetCommand(fan[k]) /\ NoMemberString(fan[k].arg)) =>
                IF fan[k].cmd = "turn_on" /\ fan[k].arg.s = ""
                THEN fan[k].pc = "raised" \/ fan[k].mode = TIME_CONTROLLED
                ELSE /\ fan[k].pc = "raised"
                     /\ fan[k].raised \in {"ValueError", "IndexError"}
                     /\ fan[k].calls = 0
                     /\ fan[k].refreshes = 0)
    /\ [][\A k \in DOMAIN fan :
            (/\ fan[k].pc = "idle"
             /\ PresetCommand(fan'[k])
             /\ NoMemberString(fan'[k].arg)
             /\ ~(fan'[k].cmd = "turn_on" /\ fan'[k].arg.s = "")) =>
                /\ fan'[k].raised =
                      (IF UnitOf(k).raised = "" THEN "ValueError" ELSE "IndexError")
                /\ refreshPending' = refreshPending]_vars

C4_Witness ==
    \E k \in DOMAIN fan :
        /\ fan[k].cmd = "set_preset_mode"
        /\ fan[k].arg = PyStr("invalid_value")
        /\ fan[k].pc = "raised"
        /\ fan[k].raised = "ValueError"
        /\ fan[k].calls = 0

\* C5: every API call an entity issues is for the unit at its own
\* (system_index, ventilation_index) of the current snapshot, also while
\* other entities' commands are under way, and turn_on without a preset
\* mode issues TIME_CONTROLLED for that unit.
C5_Routing ==
    \A k \in DOMAIN fan :
        fan[k].pc = "api" =>
            /\ fan[k].calls = 1
            /\ entities[k].system_index < Len(data)
            /\ entities[k].ventilation_index < Len(data[entities[k].system_index + 1].ventilation)
            /\ fan[k].target =
                  data[entities[k].system_index + 1].ventilation[entities[k].ventilation_index + 1]
            /\ fan[k].target.system = entities[k].system_index
            /\ fan[k].target.index = entities[k].ventilation_index
            /\ (fan[k].cmd = "turn_on" /\ fan[k].arg = PyNone) =>
                  fan[k].mode = TIME_CONTROLLED

C5_Witness ==
    \E k1, k2 \in DOMAIN fan :
        /\ entities[k1].ventilation_index = 0
        /\ entities[k2].system_index = entities[k1].system_index
        /\ entities[k2].ventilation_index = 1
        /\ fan[k1].pc = "api"
        /\ fan[k2].pc = "api"
        /\ fan[k2].cmd = "turn_on"
        /\ fan[k2].arg = PyNone
        /\ fan[k2].mode = TIME_CONTROLLED
        /\ fan[k2].target.index = 1

\* The (system, ventilation) positions present in snapshot d.
Pairs(d) ==
    {p \in (0..(Len(d) - 1)) \X (0..(MaxVents - 1)) :
        p[2] < Len(d[p[1] + 1].ventilation)}

EntityPairs(es) == {<<es[k].system_index, es[k].ventilation_index>> : k \in DOMAIN es}

\* C6: setup registers one entity for every (system, ventilation) pair of
\* the snapshot it runs on, none missing and none twice, each holding the
\* pair's indices; with no system it registers nothing and ends; later
\* polls neither add nor remove entities.
C6_Setup ==
    [][/\ (setup = "pending" /\ setup' # "pending") =>
             /\ EntityPairs(entities') = Pairs(data)
             /\ Len(entities') = Cardinality(Pairs(data))
             /\ setup' = (IF Len(data) = 0 THEN "skipped" ELSE "done")
             /\ DOMAIN fan' = DOMAIN entities'
       /\ setup # "pending" =>
             /\ entities' = entities
             /\ DOMAIN fan' = DOMAIN fan]_vars

C6_Witness ==
    /\ setup = "done"
    /\ EntityPairs(entities) = {<<0, 0>>, <<0, 1>>}
    /\ Len(entities) = 2
    /\ Pairs(data) # EntityPairs(entities)

\* C7: the state an entity reports is off exactly when the unit's mode is
\* OFF, and on for TIME_CONTROLLED, REDUCED and NORMAL.
C7_IsOn ==
    \A k \in DOMAIN states :
        UnitOf(k).raised = "" =>
            LET m == UnitOf(k).value.operation_mode_ventilation
            IN  /\ states[k].is_on.raised = ""
                /\ (states[k].is_on.value = PyBool(FALSE)) <=> (m = OFF)
                /\ (m \in VentilationOperationMode \ {OFF}) =>
                      states[k].is_on.value = PyBool(TRUE)

C7_Witness ==
    \E k \in DOMAIN states :
        /\ UnitOf(k).raised = ""
        /\ UnitOf(k).value.operation_mode_ventilation = TIME_CONTROLLED
        /\ states[k].is_on = Return(PyBool(TRUE))

\* C8: a command whose mode is resolved issues one API call; it requests
\* the delayed refresh once, and only when that call has returned; when the
\* call raises, the command ends with that exception and requests no
\* refresh.
C8_CallThenRefresh ==
    /\ [](\A k \in DOMAIN fan :
            /\ fan[k].pc = "api" => (fan[k].calls = 1 /\ fan[k].refreshes = 0)
            /\ fan[k].pc \in {"refresh", "returned"} =>
                  (fan[k].calls = 1 /\ fan[k].refreshes = 1)
            /\ fan[k].pc = "raised" =>
                  /\ fan[k].refreshes = 0
                  /\ fan[k].calls = (IF fan[k].raised = "ApiError" THEN 1 ELSE 0))
    /\ [][/\ \A k \in DOMAIN fan :
                /\ fan'[k].refreshes > fan[k].refreshes =>
                      (fan[k].pc = "api" /\ fan'[k].pc = "refresh")
                /\ (fan[k].pc = "api" /\ fan'[k].pc # "api") =>
                      \/ fan'[k].pc = "refresh" /\ refreshPending'
                      \/ /\ fan'[k].pc = "raised"
                         /\ fan'[k].raised = "ApiError"
                         /\ refreshPending' = refreshPending
          /\ (refreshPending' /\ ~refreshPending) =>
                \E k \in DOMAIN fan : fan[k].pc = "api" /\ fan'[k].pc = "refresh"]_vars

C8_Witness ==
    \E k \in DOMAIN fan :
        /\ fan[k].pc = "raised"
        /\ fan[k].raised = "ApiError"
        /\ fan[k].calls = 1
        /\ fan[k].refreshes = 0
        /\ ~refreshPending

C10_Ids ==
    \A k1, k2 \in DOMAIN entities :
        /\ (unique_id(entities[k1]) = unique_id(entities[k2]))
              <=> (entities[k1].ventilation_index = entities[k2].ventilation_index)
        /\ (entities[k1].entity_id = entities[k2].entity_id)
              <=> (entities[k1].ventilation_index = entities[k2].ventilation_index)

C10_Witness ==
    \E k1, k2 \in DOMAIN entities :
        /\ entities[k1].system_index # entities[k2].system_index
        /\ unique_id(entities[k1]) = unique_id(entities[k2])
        /\ entities[k1].entity_id = entities[k2].entity_id
        /\ \E k3 \in DOMAIN entities :
              /\ entities[k3].system_index = entities[k1].system_index
              /\ unique_id(entities[k3]) # unique_id(entities[k1])

====
